---- MODULE Spec2Model ----
(***************************************************************************)
(* Model of the cemuhookudp client in src/input_common/udp/client.cpp:     *)
(* class Socket (the asio event loop, its receive and its 3 s timer),      *)
(* SocketLoop (the body of the background thread) and class Client (the    *)
(* callbacks, the owning thread's destructor).  A reader of DeviceStatus   *)
(* (the polling layer) runs beside them and takes update_mutex.            *)
(*                                                                         *)
(* Floats are modelled exactly: the accelerometer and gyroscope values are *)
(* small integers (negation is exact in IEEE arithmetic), a touch          *)
(* coordinate is the fraction [num, den] in lowest terms that the float    *)
(* division approximates, with den = 0 for NaN and the infinities.         *)
(***************************************************************************)
EXTENDS Integers, Sequences, FiniteSets, TLC

\* ------------------------------------------------------------------ bounds
MaxCounter == 1
MaxPackets == 2
MaxTime == 6
MaxStart == 0
\* The width in bits of packet_counter and packet_sequence: 32 in the
\* program, scaled down here
CounterBits == 3

\* --------------------------------------------------------------- constants
\* std::chrono::seconds(3) in Socket::StartSend
Period == 3
\* u16 is 16 bits wide: static_cast<u16> reduces modulo 2^16
U16Mod == 65536

\* The largest value of the unsigned counter (2^32 - 1 in the program)
CounterTop == 2 ^ CounterBits - 1

\* ---------------------------------------------------------------- floats
Abs(n) == IF n < 0 THEN -n ELSE n

RECURSIVE GCD(_, _)
GCD(a, b) == IF b = 0 THEN a ELSE GCD(b, a % b)

\* The float literal 0
FZero == [num |-> 0, den |-> 1]
FOne == [num |-> 1, den |-> 1]

\* int / float: the int numerator is converted to float and divided.
\* 0/0 is NaN, n/0 is an infinity of n's sign.
FDiv(n, d) ==
    IF d = 0
    THEN [num |-> (IF n > 0 THEN 1 ELSE IF n < 0 THEN -1 ELSE 0), den |-> 0]
    ELSE LET g == GCD(Abs(n), Abs(d))
             s == IF d < 0 THEN -1 ELSE 1
         IN [num |-> (s * n) \div g, den |-> (s * d) \div g]

\* ------------------------------------------------------- protocol payloads
Types == {"Version", "PortInfo", "PadData"}
NoType == "none"

\* Response::PadData as far as OnPadData reads it: accel = <<x, y, z>>,
\* gyro = <<pitch, yaw, roll>>, touch_1 = [x, y, is_active].
Samples ==
    { [accel |-> <<1, 2, 3>>, gyro |-> <<4, 5, 6>>,
       touch |-> [x |-> 250, y |-> 0, is_active |-> 1]],
      [accel |-> <<-1, 0, 2>>, gyro |-> <<0, -3, 1>>,
       touch |-> [x |-> 150, y |-> 75, is_active |-> 2]],
      [accel |-> <<1, 2, 3>>, gyro |-> <<4, 5, 6>>,
       touch |-> [x |-> 100, y |-> 150, is_active |-> 0]] }

\* std::optional<CalibrationData>: absent, the one of the specification's
\* example, one with min > max on the x axis and min = max on the y axis.
NoCalibration == [present |-> FALSE]
Calibrations ==
    { NoCalibration,
      [present |-> TRUE, min_x |-> 100, max_x |-> 200, min_y |-> 50, max_y |-> 150],
      [present |-> TRUE, min_x |-> 200, max_x |-> 100, min_y |-> 75, max_y |-> 75] }

\* ------------------------------------------------- Client::OnPadData, pure
\* if (data.packet_counter <= packet_sequence) ... return
IsStaleOff(counter, sequence) == counter < sequence
IsStaleNever(counter, sequence) == FALSE
IsStaleWrapAware(counter, sequence) ==
    \/ counter = sequence
    \/ (sequence - counter) % (CounterTop + 1) < (CounterTop + 1) \div 2
IsStale(counter, sequence) == counter <= sequence

\* packet_sequence = data.packet_counter
NextSequenceIncrement(counter, sequence) == sequence + 1
NextSequence(counter, sequence) == counter

\* Math::MakeVec<float>(-data.accel.x, data.accel.y, -data.accel.z)
RemapAccelFlipped(a) == <<-a[1], a[2], a[3]>>
RemapAccel(a) == <<-a[1], a[2], -a[3]>>

\* Math::MakeVec<float>(-data.gyro.pitch, -data.gyro.yaw, data.gyro.roll)
RemapGyro(g) == <<-g[1], -g[2], g[3]>>

ToU16(v) == v % U16Mod

\* std::clamp(v, lo, hi).  With hi < lo the behaviour is undefined; the
\* library implementations return what one of the two comparison orders
\* gives: (v < lo) ? lo : (hi < v) ? hi : v, or hi-first.
Clamp(v, lo, hi) ==
    IF lo <= hi
    THEN {IF v < lo THEN lo ELSE IF hi < v THEN hi ELSE v}
    ELSE { IF v < lo THEN lo ELSE IF hi < v THEN hi ELSE v,
           IF hi < v THEN hi ELSE IF v < lo THEN lo ELSE v }

\* (clamp(...) - min) / static_cast<float>(max - min): u16 operands are
\* promoted to int, so both differences may be negative.
NormalizeNoClamp(v, lo, hi) == {FDiv(ToU16(v) - lo, hi - lo)}
Normalize(v, lo, hi) == {FDiv(c - lo, hi - lo) : c \in Clamp(ToU16(v), lo, hi)}

\* bool is_active = data.touch_1.is_active != 0
IsActive(touch) == touch.is_active # 0

\* The values OnPadData can store in touch_status for one packet.
TouchNoGuard(touch, cal) ==
    IF cal.present
    THEN { [x |-> fx, y |-> fy, is_active |-> IsActive(touch)] :
             fx \in Normalize(touch.x, cal.min_x, cal.max_x),
             fy \in Normalize(touch.y, cal.min_y, cal.max_y) }
    ELSE { [x |-> FZero, y |-> FZero, is_active |-> IsActive(touch)] }
TouchStatus(touch, cal) ==
    IF IsActive(touch) /\ cal.present
    THEN { [x |-> fx, y |-> fy, is_active |-> TRUE] :
             fx \in Normalize(touch.x, cal.min_x, cal.max_x),
             fy \in Normalize(touch.y, cal.min_y, cal.max_y) }
    ELSE { [x |-> FZero, y |-> FZero, is_active |-> IsActive(touch)] }

\* ------------------------------------------------------------- wire codec
\* What a datagram's bytes say: whether the header is well formed (magic,
\* version, declared length, CRC), the type tag, and the payload region.
NoData == [id |-> 0]
ZeroBody == [counter |-> 0, accel |-> <<0, 0, 0>>, gyro |-> <<0, 0, 0>>,
             touch |-> [x |-> 0, y |-> 0, is_active |-> 0]]
PadBodies ==
    { [counter |-> c, accel |-> s.accel, gyro |-> s.gyro, touch |-> s.touch] :
        c \in (0..MaxCounter) \cup {CounterTop}, s \in Samples }
\* The payload a rejected datagram carries: were it decoded as PadData it
\* would be accepted over the packets of the model with a low counter.
LoudBody ==
    [counter |-> MaxCounter + 1, accel |-> <<7, 7, 7>>, gyro |-> <<7, 7, 7>>,
     touch |-> [x |-> 150, y |-> 100, is_active |-> 1]]

\* Datagrams a peer can send, with the number of bytes received for each:
\* "full" (header and payload), "short" (fewer bytes than a header).
WellFormed ==
    { [header_ok |-> TRUE, tag |-> "PadData", body |-> b] : b \in PadBodies }
    \cup { [header_ok |-> TRUE, tag |-> t, body |-> ZeroBody] :
             t \in {"Version", "PortInfo"} }
Malformed ==
    { [header_ok |-> FALSE, tag |-> "PadData", body |-> LoudBody],
      [header_ok |-> TRUE, tag |-> "Unknown", body |-> LoudBody] }
Arrivals ==
    { [bytes |-> "full", dgram |-> d] : d \in WellFormed \cup Malformed }
    \cup { [bytes |-> "short",
            dgram |-> [header_ok |-> TRUE, tag |-> "PadData", body |-> LoudBody]] }

\* receive_buffer between two completions: it is handed to the socket by
\* async_receive_from and holds bytes of earlier datagrams, which nothing
\* reads; they show again when a receive completes with an error.
Handed == [header_ok |-> FALSE, tag |-> "Unknown", body |-> ZeroBody]
Leftovers == {a.dgram : a \in Arrivals} \cup {Handed}

\* Response::Validate(receive_buffer.data(), bytes_transferred)
Validate(buffer, bytes) ==
    IF bytes # "full" THEN NoType
    ELSE IF ~buffer.header_ok THEN NoType
    ELSE IF buffer.tag \notin Types THEN NoType
    ELSE buffer.tag

\* --------------------------------------------------------- outgoing requests
\* Request::PortInfo port_info{1, {0, 0, 0, 0}}; Request::Create(.., client_id)
PortInfoRequest(id) ==
    [kind |-> "PortInfo", pad_count |-> 1, port |-> <<0, 0, 0, 0>>, client_id |-> id]
\* Request::PadData pad_data{Flags::Id, 0, EMPTY_MAC_ADDRESS}
PadDataRequest(id) ==
    [kind |-> "PadData", flags |-> "Id", port_id |-> 0,
     mac |-> <<0, 0, 0, 0, 0, 0>>, client_id |-> id]

\* -------------------------------------------------------------------- state
VARIABLES
    owner_pc,          \* the owning thread: "running", "join", "joined"
    bg_pc,             \* the background thread's position
    stopped,           \* io_service.stop() has been called
    recv_state,        \* the socket's async_receive_from: "idle", "armed", "completed"
    receive_buffer,    \* Socket::receive_buffer
    bytes_transferred, \* of the completed receive
    timer_armed,       \* an async_wait is outstanding on Socket::timer
    deadline,          \* timer.expiry()
    now,               \* Socket::clock
    client_id,         \* Socket::client_id
    packet_sequence,   \* Client::packet_sequence
    data,              \* OnPadData's parameter while the callback runs
    mutex,             \* status->update_mutex: "free", "bg", "reader"
    motion_status,     \* status->motion_status
    touch_status,      \* status->touch_status
    touch_calibration, \* status->touch_calibration
    rd_pc,             \* the reader: "idle", "motion", "both"
    rd_motion,         \* the packet whose motion the reader saw
    rd_touch,          \* the packet whose touch the reader saw
    \* history, read by no action
    motion_from,       \* the packet motion_status was written from
    touch_from,        \* the packet touch_status was written from
    high_water,        \* the highest counter of a packet that wrote DeviceStatus
    arms,              \* the number of async_receive_from calls
    handled,           \* the number of receive completions handled
    rejected,          \* the number of those Validate rejected
    n_callbacks,       \* the number of callbacks invoked
    last_callbacks,    \* the callbacks the last handled completion invoked
    T0,                \* the time passed to the first StartSend
    ticks,             \* the number of timer expiries handled to the end
    sent,              \* the requests sent so far by the running HandleSend
    send_failed        \* a send_to has failed

net == <<recv_state, receive_buffer, bytes_transferred>>
timer == <<timer_armed, deadline>>
device == <<motion_status, touch_status, motion_from, touch_from>>
reader == <<rd_pc, rd_motion, rd_touch>>
hist == <<high_water, arms, handled, rejected, n_callbacks, last_callbacks>>
beat == <<T0, ticks, sent, send_failed>>
vars == <<owner_pc, bg_pc, stopped, net, timer, now, client_id, packet_sequence,
          data, mutex, device, touch_calibration, reader, hist, beat>>

\* The process runs until an exception leaves the thread function
\* (std::terminate); nothing of it runs afterwards.
Alive == bg_pc # "terminated"

\* The state when Client::Client returns: the thread is started and has not
\* run yet, DeviceStatus is as the caller value-initialised it and
\* packet_sequence (a member declared in client.h) is 0.
Init ==
    /\ owner_pc = "running"
    /\ bg_pc = "StartReceive"
    /\ stopped = FALSE
    /\ recv_state = "idle"
    /\ receive_buffer = Handed
    /\ bytes_transferred = "zero"
    /\ timer_armed = FALSE
    /\ deadline = 0
    /\ now \in 0..MaxStart
    /\ client_id \in {24872}
    /\ packet_sequence = 0
    /\ data = NoData
    /\ mutex = "free"
    /\ motion_status = [accel |-> <<0, 0, 0>>, gyro |-> <<0, 0, 0>>]
    /\ touch_status = [x |-> FZero, y |-> FZero, is_active |-> FALSE]
    /\ touch_calibration \in Calibrations
    /\ rd_pc = "idle"
    /\ rd_motion = 0
    /\ rd_touch = 0
    /\ motion_from = NoData
    /\ touch_from = NoData
    /\ high_water = -1
    /\ arms = 0
    /\ handled = 0
    /\ rejected = 0
    /\ n_callbacks = 0
    /\ last_callbacks = <<>>
    /\ T0 = 0
    /\ ticks = 0
    /\ sent = <<>>
    /\ send_failed = FALSE

\* ------------------------------------------------------- the owning thread
\* Client::~Client, first statement: socket->Stop(), io_service.stop()
Stop ==
    /\ Alive
    /\ owner_pc = "running"
    /\ stopped' = TRUE
    /\ owner_pc' = "join"
    /\ UNCHANGED <<bg_pc, net, timer, now, client_id, packet_sequence, data, mutex,
                   device, touch_calibration, reader, hist, beat>>

\* thread.join() returns once the thread function has returned
JoinDetached == owner_pc = "join"
JoinReady == owner_pc = "join" /\ bg_pc = "exited"

\* Client::~Client, second statement: thread.join()
Join ==
    /\ Alive
    /\ JoinReady
    /\ owner_pc' = "joined"
    /\ UNCHANGED <<bg_pc, stopped, net, timer, now, client_id, packet_sequence, data,
                   mutex, device, touch_calibration, reader, hist, beat>>

\* ---------------------------------------------------------- the environment
\* Socket::clock advances.  Its first reader is SocketLoop's clock::now()
\* (the time that passes before it is in the choice of Init's now); no
\* handler is dispatched once the service is stopped, so the clock is
\* followed from the one to the other.
Tick ==
    /\ Alive
    /\ ~stopped
    /\ bg_pc \notin {"StartReceive", "StartSend"}
    /\ now < MaxTime
    /\ now' = now + 1
    /\ UNCHANGED <<owner_pc, bg_pc, stopped, net, timer, client_id, packet_sequence,
                   data, mutex, device, touch_calibration, reader, hist, beat>>

\* A datagram arrives for the outstanding async_receive_from: its bytes are
\* in receive_buffer and the completion handler is ready to run.  A
\* completion that arrives after stop() is never dispatched.
Deliver ==
    /\ Alive
    /\ ~stopped
    /\ recv_state = "armed"
    /\ handled < MaxPackets
    /\ \E a \in Arrivals :
         /\ receive_buffer' = a.dgram
         /\ bytes_transferred' = a.bytes
    /\ recv_state' = "completed"
    /\ UNCHANGED <<owner_pc, bg_pc, stopped, timer, now, client_id, packet_sequence,
                   data, mutex, device, touch_calibration, reader, hist, beat>>

\* The outstanding receive completes with a socket error: no bytes are
\* transferred and the buffer holds what an earlier datagram left in it.
ReceiveError ==
    /\ Alive
    /\ ~stopped
    /\ recv_state = "armed"
    /\ handled < MaxPackets
    /\ receive_buffer' \in Leftovers
    /\ bytes_transferred' = "zero"
    /\ recv_state' = "completed"
    /\ UNCHANGED <<owner_pc, bg_pc, stopped, timer, now, client_id, packet_sequence,
                   data, mutex, device, touch_calibration, reader, hist, beat>>

\* ---------------------------------------------------- the background thread
\* io_service.run() is called by one thread only and runs one handler at a
\* time: it takes the next ready handler when the one before has returned.
RunOnSecondThread == bg_pc \in {"Loop", "Lock"}
Idle == bg_pc = "Loop"

\* SocketLoop: socket->StartReceive()
StartReceive ==
    /\ Alive
    /\ bg_pc = "StartReceive"
    /\ recv_state' = "armed"
    /\ arms' = arms + 1
    /\ bg_pc' = "StartSend"
    /\ UNCHANGED <<owner_pc, stopped, receive_buffer, bytes_transferred, timer, now,
                   client_id, packet_sequence, data, mutex, device, touch_calibration,
                   reader, high_water, handled, rejected, n_callbacks, last_callbacks,
                   beat>>

\* timer.expires_at(from + std::chrono::seconds(3))
ExpiresAt(from) == from + Period

\* SocketLoop: socket->StartSend(Socket::clock::now()); then socket->Loop()
StartSend ==
    /\ Alive
    /\ bg_pc = "StartSend"
    /\ T0' = now
    /\ deadline' = ExpiresAt(now)
    /\ timer_armed' = TRUE
    /\ bg_pc' = "Loop"
    /\ UNCHANGED <<owner_pc, stopped, net, now, client_id, packet_sequence, data,
                   mutex, device, touch_calibration, reader, hist, ticks, sent,
                   send_failed>>

\* io_service.run() returns when the service is stopped, or when no
\* asynchronous operation is outstanding and no handler is ready.
LoopReturn ==
    /\ Alive
    /\ bg_pc = "Loop"
    /\ stopped \/ (recv_state = "idle" /\ ~timer_armed)
    /\ bg_pc' = "exited"
    /\ UNCHANGED <<owner_pc, stopped, net, timer, now, client_id, packet_sequence,
                   data, mutex, device, touch_calibration, reader, hist, beat>>

\* The switch of HandleReceive: the callbacks invoked for a validated type.
DispatchFallthrough(type) ==
    IF type = "PortInfo" THEN <<"PortInfo", "PadData">>
    ELSE IF type \in Types THEN <<type>> ELSE <<>>
Dispatch(type) == IF type \in Types THEN <<type>> ELSE <<>>

\* HandleReceive ends with StartReceive(), whatever Validate said.
RearmOnlyIfValid(type) == IF type = NoType THEN "idle" ELSE "armed"
RearmExceptPadData(type) == IF type = "PadData" THEN "idle" ELSE "armed"
AfterReceive(type) == "armed"

\* The async_receive_from calls behind a new state of the receive.
Armed(state) == IF state = "armed" THEN 1 ELSE 0

\* std::memcpy(&pad_data, &receive_buffer[sizeof(Header)], sizeof(Response::PadData))
Decode(buffer, id) ==
    [id |-> id, counter |-> buffer.body.counter, accel |-> buffer.body.accel,
     gyro |-> buffer.body.gyro, touch |-> buffer.body.touch]

\* io_service.run() dispatches the receive completion: HandleReceive, and
\* inside it OnVersion, OnPortInfo, or OnPadData up to the lock_guard.
HandleReceive ==
    /\ Alive
    /\ Idle
    /\ ~stopped
    /\ recv_state = "completed"
    /\ LET type == Validate(receive_buffer, bytes_transferred)
           pad == Decode(receive_buffer, handled + 1)
       IN /\ handled' = handled + 1
          /\ rejected' = IF type = NoType THEN rejected + 1 ELSE rejected
          /\ n_callbacks' = n_callbacks + Len(Dispatch(type))
          /\ last_callbacks' = Dispatch(type)
          /\ IF Dispatch(type) = <<"PadData">> /\ ~IsStale(pad.counter, packet_sequence)
             THEN /\ packet_sequence' = NextSequence(pad.counter, packet_sequence)
                  /\ data' = pad
                  /\ recv_state' = "idle"
                  /\ arms' = arms
                  /\ bg_pc' = "Lock"
             ELSE /\ recv_state' = AfterReceive(type)
                  /\ arms' = arms + Armed(AfterReceive(type))
                  /\ bg_pc' = "Loop"
                  /\ UNCHANGED <<packet_sequence, data>>
    /\ receive_buffer' = Handed
    /\ bytes_transferred' = "zero"
    /\ UNCHANGED <<owner_pc, stopped, timer, now, client_id, mutex, device, touch_calibration, reader, high_water,
                   beat>>

\* std::lock_guard<std::mutex> guard(status->update_mutex) blocks while the
\* reader holds the mutex.
LockUnguarded == TRUE
LockFree == mutex = "free"

Lock ==
    /\ Alive
    /\ bg_pc = "Lock"
    /\ LockFree
    /\ mutex' = "bg"
    /\ bg_pc' = "WriteMotion"
    /\ UNCHANGED <<owner_pc, stopped, net, timer, now, client_id, packet_sequence,
                   data, device, touch_calibration, reader, hist, beat>>

\* status->motion_status = {accel, gyro}
WriteMotion ==
    /\ Alive
    /\ bg_pc = "WriteMotion"
    /\ motion_status' = [accel |-> RemapAccel(data.accel), gyro |-> RemapGyro(data.gyro)]
    /\ motion_from' = data
    /\ bg_pc' = "WriteTouch"
    /\ UNCHANGED <<owner_pc, stopped, net, timer, now, client_id, packet_sequence,
                   data, mutex, touch_status, touch_from, touch_calibration, reader,
                   hist, beat>>

\* status->touch_status = {x, y, is_active}
WriteTouch ==
    /\ Alive
    /\ bg_pc = "WriteTouch"
    /\ touch_status' \in TouchStatus(data.touch, touch_calibration)
    /\ touch_from' = data
    /\ bg_pc' = "Unlock"
    /\ UNCHANGED <<owner_pc, stopped, net, timer, now, client_id, packet_sequence,
                   data, mutex, motion_status, motion_from, touch_calibration, reader,
                   hist, beat>>

\* The lock_guard's scope ends, OnPadData returns, HandleReceive calls
\* StartReceive().
Unlock ==
    /\ Alive
    /\ bg_pc = "Unlock"
    /\ mutex' = IF mutex = "bg" THEN "free" ELSE mutex
    /\ high_water' = IF data.counter > high_water THEN data.counter ELSE high_water
    /\ data' = NoData
    /\ recv_state' = AfterReceive("PadData")
    /\ arms' = arms + Armed(AfterReceive("PadData"))
    /\ bg_pc' = "Loop"
    /\ UNCHANGED <<owner_pc, stopped, receive_buffer, bytes_transferred, timer, now,
                   client_id, packet_sequence, device, touch_calibration, reader,
                   handled, rejected, n_callbacks, last_callbacks, beat>>

\* io_service.run() dispatches the timer's completion once the clock has
\* reached the deadline: HandleSend starts.
TimerExpire ==
    /\ Alive
    /\ Idle
    /\ ~stopped
    /\ timer_armed
    /\ now >= deadline
    /\ timer_armed' = FALSE
    /\ bg_pc' = "SendPortInfo"
    /\ UNCHANGED <<owner_pc, stopped, net, deadline, now, client_id, packet_sequence,
                   data, mutex, device, touch_calibration, reader, hist, beat>>

\* socket.send_to(buffer, endpoint) is the overload without an error_code:
\* it returns when the datagram is sent and throws boost::system::system_error
\* when the send fails.  Nothing catches it in HandleSend, io_service.run(),
\* SocketLoop or the thread, so std::terminate ends the process.
SendTo(message, next) ==
    \/ /\ sent' = Append(sent, message)
       /\ bg_pc' = next
       /\ UNCHANGED send_failed
    \/ /\ send_failed' = TRUE
       /\ bg_pc' = "terminated"
       /\ UNCHANGED sent

\* HandleSend: the port info request for pad 1
SendPortInfo ==
    /\ Alive
    /\ bg_pc = "SendPortInfo"
    /\ SendTo(PortInfoRequest(client_id), "SendPadData")
    /\ UNCHANGED <<owner_pc, stopped, net, timer, now, client_id, packet_sequence,
                   data, mutex, device, touch_calibration, reader, hist, T0, ticks>>

\* HandleSend: the pad data request for pad 1
SendPadData ==
    /\ Alive
    /\ bg_pc = "SendPadData"
    /\ SendTo(PadDataRequest(client_id), "Rearm")
    /\ UNCHANGED <<owner_pc, stopped, net, timer, now, client_id, packet_sequence,
                   data, mutex, device, touch_calibration, reader, hist, T0, ticks>>

\* The argument of HandleSend's StartSend: timer.expiry(), the deadline of
\* the wait that has just completed.
RearmFromNow == now
RearmFrom == deadline

\* HandleSend: StartSend(timer.expiry())
Rearm ==
    /\ Alive
    /\ bg_pc = "Rearm"
    /\ deadline' = ExpiresAt(RearmFrom)
    /\ timer_armed' = TRUE
    /\ ticks' = ticks + 1
    /\ sent' = <<>>
    /\ bg_pc' = "Loop"
    /\ UNCHANGED <<owner_pc, stopped, net, now, client_id, packet_sequence, data,
                   mutex, device, touch_calibration, reader, hist, T0, send_failed>>

\* ------------------------------------------------- a reader of DeviceStatus
\* std::lock_guard guard(status->update_mutex) in the polling layer, and
\* its read of motion_status
ReaderLock ==
    /\ Alive
    /\ rd_pc = "idle"
    /\ mutex = "free"
    /\ mutex' = "reader"
    /\ rd_motion' = motion_from.id
    /\ rd_pc' = "motion"
    /\ UNCHANGED <<owner_pc, bg_pc, stopped, net, timer, now, client_id,
                   packet_sequence, data, device, touch_calibration, rd_touch, hist,
                   beat>>

\* its read of touch_status
ReaderTouch ==
    /\ Alive
    /\ rd_pc = "motion"
    /\ rd_touch' = touch_from.id
    /\ rd_pc' = "both"
    /\ UNCHANGED <<owner_pc, bg_pc, stopped, net, timer, now, client_id,
                   packet_sequence, data, mutex, device, touch_calibration, rd_motion,
                   hist, beat>>

ReaderUnlock ==
    /\ Alive
    /\ rd_pc = "both"
    /\ mutex' = IF mutex = "reader" THEN "free" ELSE mutex
    /\ rd_motion' = 0
    /\ rd_touch' = 0
    /\ rd_pc' = "idle"
    /\ UNCHANGED <<owner_pc, bg_pc, stopped, net, timer, now, client_id,
                   packet_sequence, data, device, touch_calibration, hist, beat>>

\* ------------------------------------------------------------ specification
Background ==
    \/ StartReceive
    \/ StartSend
    \/ LoopReturn
    \/ HandleReceive
    \/ Lock
    \/ WriteMotion
    \/ WriteTouch
    \/ Unlock
    \/ TimerExpire
    \/ SendPortInfo
    \/ SendPadData
    \/ Rearm

Next ==
    \/ Stop
    \/ Join
    \/ Tick
    \/ Deliver
    \/ ReceiveError
    \/ Background
    \/ ReaderLock
    \/ ReaderTouch
    \/ ReaderUnlock

Spec == Init /\ [][Next]_vars

\* The scheduler runs a thread that can take a step; std::mutex hands the
\* lock to a waiter that keeps asking; a reader that holds update_mutex
\* releases it.
FairSpec ==
    /\ Spec
    /\ WF_vars(Background)
    /\ SF_vars(Lock)
    /\ WF_vars(Join)
    /\ WF_vars(ReaderTouch \/ ReaderUnlock)

\* ------------------------------------------------------------------ claims
InHandleSend == bg_pc \in {"SendPortInfo", "SendPadData", "Rearm"}

\* C1: DeviceStatus is changed only on behalf of a packet whose
\* packet_counter is strictly greater than the counter of every packet that
\* changed it before; a duplicate or late packet changes nothing.
C1_OnlyNewerCountersUpdate ==
    [][device' # device =>
         /\ data # NoData
         /\ data.counter > high_water
         /\ motion_from' \in {motion_from, data}
         /\ touch_from' \in {touch_from, data}]_vars

\* A second PadData packet was handed to OnPadData and dropped: DeviceStatus
\* is still the first packet's.
C1_Witness ==
    /\ handled = 2
    /\ n_callbacks = 2
    /\ last_callbacks = <<"PadData">>
    /\ bg_pc = "Loop"
    /\ data = NoData
    /\ motion_from.id = 1
    /\ touch_from.id = 1

\* C2: a reader that holds update_mutex and has read motion_status and
\* touch_status has read the values of one and the same packet.
C2_ReaderSeesOnePacket == rd_pc = "both" => rd_motion = rd_touch

\* The reader holds the values of an accepted packet while the writer waits
\* for the mutex with the next one.
C2_Witness ==
    /\ rd_pc = "both"
    /\ rd_motion > 0
    /\ bg_pc = "Lock"
    /\ data.id > rd_motion

\* C3: once the destructor has returned (Stop, then join) the background
\* thread has exited, DeviceStatus is written no more and no callback is
\* invoked.
C3_NothingAfterShutdown ==
    [][owner_pc = "joined" =>
         /\ bg_pc = "exited"
         /\ bg_pc' = "exited"
         /\ device' = device
         /\ n_callbacks' = n_callbacks
         /\ packet_sequence' = packet_sequence]_vars

\* The destructor has returned while a datagram is received and the timer
\* is due: neither handler runs any more.
C3_Witness ==
    /\ owner_pc = "joined"
    /\ recv_state = "completed"
    /\ timer_armed
    /\ now >= deadline
    /\ motion_from.id > 0

\* The completed receive holds a datagram that is too short, has a bad
\* header or an unknown type tag.
C4_Invalid ==
    \/ bytes_transferred # "full"
    \/ ~receive_buffer.header_ok
    \/ receive_buffer.tag \notin Types

\* C4: handling a datagram that fails validation invokes no callback,
\* leaves DeviceStatus and packet_sequence as they are and arms the next
\* receive, so that a later well-formed packet is dispatched.
C4_MalformedIsDropped ==
    [][(bg_pc = "Loop" /\ handled' = handled + 1 /\ C4_Invalid) =>
         /\ n_callbacks' = n_callbacks
         /\ device' = device
         /\ packet_sequence' = packet_sequence
         /\ recv_state' = "armed"
         /\ bg_pc' = "Loop"]_vars

\* After malformed datagrams only, a well-formed PadData packet has been
\* dispatched and has written DeviceStatus.
C4_Witness ==
    /\ rejected >= 1
    /\ handled = rejected + 1
    /\ last_callbacks = <<"PadData">>
    /\ motion_from.id = handled
    /\ touch_from.id = handled
    /\ bg_pc = "Loop"

\* C5: the deadline of the n-th heartbeat is T0 + 3n seconds, whenever the
\* handlers ran, and no request is sent before the deadline of its
\* heartbeat (so none before T0 + 3 s).
C5_DriftFreeDeadlines ==
    /\ bg_pc \notin {"StartReceive", "StartSend"} =>
         deadline = T0 + Period * (ticks + 1)
    /\ InHandleSend => now >= T0 + Period * (ticks + 1)
    /\ (InHandleSend \/ ticks > 0 \/ send_failed) => now >= T0 + Period

\* The timer is armed again after a handler that ran late: the deadline is
\* not three seconds from the time of the re-arm.
C5_Witness ==
    /\ ticks = 1
    /\ timer_armed
    /\ bg_pc = "Loop"
    /\ deadline = T0 + 2 * Period
    /\ now > T0 + Period
    /\ now + Period > deadline

\* C6: a failed send is not fatal: the thread goes on and the timer is
\* armed for the next heartbeat.
C6_SendFailureIsNotFatal ==
    send_failed => (bg_pc # "terminated" /\ (timer_armed \/ InHandleSend))

\* C7: once Stop is called the loop returns and the join completes.
C7_ShutdownTerminates == stopped ~> (owner_pc = "joined")

\* C8: the motion stored for a packet is accel = (-ax, ay, -az) and
\* gyro = (-pitch, -yaw, roll).
C8_AxisRemap ==
    motion_from # NoData =>
        /\ motion_status.accel = << 0 - motion_from.accel[1], motion_from.accel[2],
                                    0 - motion_from.accel[3] >>
        /\ motion_status.gyro = << 0 - motion_from.gyro[1], 0 - motion_from.gyro[2],
                                   motion_from.gyro[3] >>

\* The specification's example: accel (1,2,3), gyro (4,5,6).
C8_Witness ==
    /\ motion_from # NoData
    /\ motion_from.accel = <<1, 2, 3>>
    /\ motion_from.gyro = <<4, 5, 6>>
    /\ motion_status = [accel |-> <<-1, 2, -3>>, gyro |-> <<-4, -5, 6>>]

\* The fraction f is (clamp(v, lo, hi) - lo) / (hi - lo), for lo < hi.
C9_Normalized(f, v, lo, hi) ==
    LET c == IF v < lo THEN lo ELSE IF v > hi THEN hi ELSE v
    IN /\ f.den > 0
       /\ f.num * (hi - lo) = (c - lo) * f.den
       /\ v <= lo => f = FZero
       /\ v >= hi => f = FOne

C10_TouchInactiveOrUncalibrated ==
    touch_from # NoData =>
        /\ touch_from.touch.is_active = 0 =>
             touch_status = [x |-> FZero, y |-> FZero, is_active |-> FALSE]
        /\ (touch_from.touch.is_active # 0 /\ ~touch_calibration.present) =>
             touch_status = [x |-> FZero, y |-> FZero, is_active |-> TRUE]

\* An inactive touch with raw coordinates inside a present calibration.
C10_Witness ==
    /\ touch_from # NoData
    /\ touch_from.touch = [x |-> 100, y |-> 150, is_active |-> 0]
    /\ touch_calibration.present
    /\ touch_status = [x |-> FZero, y |-> FZero, is_active |-> FALSE]

\* The float f is a number of [0, 1] (not NaN, not an infinity).
C11_InUnit(f) == f.den > 0 /\ 0 <= f.num /\ f.num <= f.den

\* C11: the touch coordinates stored in DeviceStatus lie within [0, 1],
\* whatever the raw touch and the calibration.
C11_TouchInUnitRange == C11_InUnit(touch_status.x) /\ C11_InUnit(touch_status.y)

\* OnPadData holds an accepted packet: HandleReceive has not returned.
InOnPadData == bg_pc \in {"Lock", "WriteMotion", "WriteTouch", "Unlock"}

\* C12: every handled receive completion is followed by exactly one new
\* async_receive_from: once SocketLoop has armed the first receive and
\* while HandleReceive is not running, exactly one receive is outstanding
\* (waiting, or completed and not yet handled); never more than one.
C12_OneReceiveOutstanding ==
    /\ arms - handled \in {0, 1}
    /\ InOnPadData => (arms = handled /\ recv_state = "idle")
    /\ (bg_pc # "StartReceive" /\ ~InOnPadData) =>
         (arms = handled + 1 /\ recv_state \in {"armed", "completed"})

\* A valid datagram, then a receive that completed with an error, have been
\* handled and the next receive waits.
C12_Witness ==
    /\ handled = 2
    /\ rejected = 1
    /\ n_callbacks = 1
    /\ last_callbacks = <<>>
    /\ arms = 3
    /\ recv_state = "armed"
    /\ bg_pc = "Loop"
    /\ ~stopped

\* The background thread has left io_service.run(): by a return of run()
\* or by an exception that left a handler.
LoopEnded == bg_pc \in {"exited", "terminated"}

\* C13: the loop of the background thread ends only because Stop was
\* invoked; no receive outcome, parse failure, stale packet or send failure
\* ends it, and run() never returns for lack of work.
C13_LoopEndsOnlyOnStop == LoopEnded => stopped

\* run() itself returns only after Stop: there is always a receive or a
\* timer wait outstanding.
C13_RunReturnsOnlyOnStop == bg_pc = "exited" => stopped

\* C14: each handled receive completion invokes exactly one callback, the
\* one of the validated message type, with the payload of that datagram,
\* and none when validation fails; callbacks are invoked in no other step,
\* so they follow the order in which the datagrams were received.
C14_OneCallbackPerDatagram ==
    [][(n_callbacks' # n_callbacks \/ last_callbacks' # last_callbacks
          \/ handled' # handled) =>
         /\ bg_pc = "Loop"
         /\ recv_state = "completed"
         /\ handled' = handled + 1
         /\ LET type == Validate(receive_buffer, bytes_transferred)
            IN /\ type = NoType =>
                    (last_callbacks' = <<>> /\ n_callbacks' = n_callbacks)
               /\ type # NoType =>
                    (last_callbacks' = <<type>> /\ n_callbacks' = n_callbacks + 1)
               /\ data' # data =>
                    /\ type = "PadData"
                    /\ data'.id = handled + 1
                    /\ data'.counter = receive_buffer.body.counter
                    /\ data'.accel = receive_buffer.body.accel
                    /\ data'.gyro = receive_buffer.body.gyro
                    /\ data'.touch = receive_buffer.body.touch]_vars

\* A rejected datagram, then a Version message: one callback in all, the
\* Version one.
C14_Witness ==
    /\ handled = 2
    /\ rejected = 1
    /\ n_callbacks = 1
    /\ last_callbacks = <<"Version">>

\* The two requests of a heartbeat as the claim describes them: both carry
\* the client id and name the first pad (one pad asked for, pad id 0), the
\* subscription registers by id with an all-zero MAC address.
C15_PortInfoQuery ==
    [kind |-> "PortInfo", pad_count |-> 1, port |-> <<0, 0, 0, 0>>,
     client_id |-> client_id]
C15_Subscription ==
    [kind |-> "PadData", flags |-> "Id", port_id |-> 0,
     mac |-> <<0, 0, 0, 0, 0, 0>>, client_id |-> client_id]

\* What HandleSend has sent at each of its steps, and nothing is sent
\* while the timer waits.
C15_RequestsInOrder ==
    /\ bg_pc = "SendPortInfo" => sent = <<>>
    /\ bg_pc = "SendPadData" => sent = <<C15_PortInfoQuery>>
    /\ bg_pc = "Rearm" => sent = <<C15_PortInfoQuery, C15_Subscription>>
    /\ timer_armed => (sent = <<>> /\ ~InHandleSend)

\* C15: every expiry of the timer sends the port-info query and then the
\* pad-data subscription, and re-arms the timer only after both: a wait
\* that has completed is followed by HandleSend running to its re-arm, with
\* exactly these datagrams sent on the way.
C15_HeartbeatSendsBoth ==
    /\ C15_RequestsInOrder
    /\ (~timer_armed /\ bg_pc \notin {"StartReceive", "StartSend"}) => InHandleSend

\* The completed receive holds a message that changes nothing: a Version
\* or PortInfo response, or a PadData packet whose counter is not above
\* packet_sequence.
C16_NoEffectMessage ==
    LET type == Validate(receive_buffer, bytes_transferred)
    IN \/ type \in {"Version", "PortInfo"}
       \/ (type = "PadData" /\ receive_buffer.body.counter <= packet_sequence)

\* C16: handling a Version or PortInfo response, or a stale PadData packet,
\* leaves DeviceStatus and packet_sequence unchanged and does not go on to
\* take update_mutex: the handler is back in the loop.
C16_ResponsesChangeNothing ==
    [][(bg_pc = "Loop" /\ handled' = handled + 1 /\ C16_NoEffectMessage) =>
         /\ device' = device
         /\ packet_sequence' = packet_sequence
         /\ mutex' = mutex
         /\ data' = data
         /\ bg_pc' = "Loop"]_vars

\* After an accepted packet a PortInfo response has been handled while a
\* reader holds update_mutex: DeviceStatus is still the first packet's.
C16_Witness ==
    /\ handled = 2
    /\ n_callbacks = 2
    /\ last_callbacks = <<"PortInfo">>
    /\ packet_sequence > 0
    /\ motion_from.id = 1
    /\ touch_from.id = 1
    /\ mutex = "reader"
    /\ bg_pc = "Loop"

\* The step is the start of a handler: io_service.run() dispatches a
\* receive completion or the expiry of the timer.
C17_HandlerStarts == handled' # handled \/ (timer_armed /\ ~timer_armed')

\* The step is one of the owning thread: Stop or the join.
C17_OwnerStep == owner_pc' # owner_pc \/ stopped' # stopped

\* C17: handlers run one at a time on the background thread: a handler
\* starts only when no other is executing (HandleReceive with its callback
\* and HandleSend never overlap), and the owning thread does nothing but
\* Stop and join: its steps leave packet_sequence, the sockets' state, the
\* timer and DeviceStatus alone.
C17_HandlersAreSerial ==
    [][/\ C17_HandlerStarts => (bg_pc = "Loop" /\ ~InHandleSend /\ ~InOnPadData)
       /\ C17_OwnerStep =>
            /\ bg_pc' = bg_pc
            /\ packet_sequence' = packet_sequence
            /\ data' = data
            /\ device' = device
            /\ net' = net
            /\ timer' = timer
            /\ sent' = sent]_vars

\* OnPadData waits for update_mutex, held by a reader, past the deadline of
\* the timer: HandleSend is due and does not start.
C17_Witness ==
    /\ bg_pc = "Lock"
    /\ mutex = "reader"
    /\ timer_armed
    /\ now >= deadline
    /\ ~stopped

\* C18: packet_sequence changes only in the handling of a PadData packet
\* that is accepted, it grows and is then that packet's counter; outside
\* OnPadData, once a packet has been accepted, it is the counter of the
\* packet that motion_status and touch_status were computed from.
C18_SequenceFollowsAccepted ==
    /\ [][packet_sequence' # packet_sequence =>
            /\ bg_pc = "Loop"
            /\ handled' = handled + 1
            /\ Validate(receive_buffer, bytes_transferred) = "PadData"
            /\ packet_sequence' > packet_sequence
            /\ packet_sequence' = receive_buffer.body.counter
            /\ bg_pc' = "Lock"]_vars
    /\ []((~InOnPadData /\ high_water > 0) =>
            /\ motion_from # NoData
            /\ touch_from # NoData
            /\ packet_sequence = motion_from.counter
            /\ packet_sequence = touch_from.counter
            /\ packet_sequence = high_water)

\* Two packets have been accepted, counter 1 and then a higher counter,
\* and OnPadData has returned.
C18_Witness ==
    /\ handled = 2
    /\ packet_sequence > 1
    /\ high_water = packet_sequence
    /\ motion_from.id = 2
    /\ touch_from.id = 2
    /\ motion_from.counter = packet_sequence
    /\ bg_pc = "Loop"

\* C19: the staleness test is the plain comparison of the unsigned
\* counters, with no allowance for a wrap or a restart of the peer: a
\* PadData packet is accepted exactly when its counter is above
\* packet_sequence, and once the largest counter has been accepted no
\* handled packet is accepted any more.
C19_NoWrapHandling ==
    [][(bg_pc = "Loop" /\ handled' = handled + 1) =>
         /\ Validate(receive_buffer, bytes_transferred) = "PadData" =>
              (bg_pc' = "Lock" <=> receive_buffer.body.counter > packet_sequence)
         /\ packet_sequence = CounterTop =>
              /\ bg_pc' = "Loop"
              /\ data' = data
              /\ device' = device
              /\ packet_sequence' = CounterTop]_vars

\* The packet with the largest counter was accepted first; the PadData
\* packet that followed it was handed to OnPadData and dropped.
C19_Witness ==
    /\ packet_sequence = CounterTop
    /\ handled = 2
    /\ n_callbacks = 2
    /\ last_callbacks = <<"PadData">>
    /\ motion_from.id = 1
    /\ motion_from.counter = CounterTop
    /\ touch_from.id = 1
    /\ bg_pc = "Loop"

====
